---- MODULE Spec2Model ----
(***************************************************************************)
(* ssh2docker, client.go: the per-connection session engine.               *)
(*                                                                         *)
(* One Client (one SSH connection) accepts session channels                *)
(* (HandleChannel), and one goroutine per accepted channel interprets the  *)
(* channel's requests (HandleChannelRequests).  A successful "shell"       *)
(* request starts a backing process and three goroutines (two io.Copy      *)
(* loops and cmd.Wait) that share one sync.Once guarding channel.Close().  *)
(*                                                                         *)
(* Go strings and []byte values that are decoded byte by byte are tuples   *)
(* of byte values (0..255); command-line words are TLA+ strings; the       *)
(* output of "docker ps" and the banner are tuples of text chunks.         *)
(***************************************************************************)
EXTENDS Integers, Sequences, FiniteSets, TLC

VARIABLES
    server,         \* the *Server fields the client reads
    ClientConfigs,  \* server.ClientConfigs: ClientID -> *ClientConfig (an address)
    heap,           \* the ClientConfig values allocated so far, by address
    client,         \* the Client fields: Idx, ClientID, ChannelIdx, Config, Pty, Tty
    others,         \* the Clients of the connections accepted after this one
    chansLoop,      \* position of HandleChannels: "running" | "returned"
    chans,          \* accepted channels, in order of acceptance
    ptys,           \* pseudo-terminal pairs opened by pty.Open, in order
    procs,          \* backing processes started by cmd.Start, in order
    crashed,        \* an unrecovered panic ended the server process
    last            \* what the request handler did, if the last step was one

vars ==
    <<server, ClientConfigs, heap, client, others, chansLoop, chans, ptys, procs,
      crashed, last>>

----------------------------------------------------------------------------
(* Bounds of the model *)

\* what the peer sends over the life of the server: channel opens and
\* channel requests on the connection, and further connections
MaxInputs == 3

----------------------------------------------------------------------------
(* Byte strings *)

TERM == <<84, 69, 82, 77>>
EqSign == <<61>>
xterm == <<120, 116, 101, 114, 109>>
vt == <<118, 116>>
dumb == <<100, 117, 109, 98>>
KeyA == <<65>>
Val1 == <<49>>
Val2 == <<50>>

\* n bytes b
Fill(b, n) == [i \in 1..n |-> b]

\* uint8 arithmetic: "+" on Go bytes is computed modulo 2^8
AddU8(a, b) == (a + b) % 256

\* p[lo:hi] of Go: defined when lo <= hi <= len(p), a run-time panic otherwise
SliceOK(p, lo, hi) == lo <= hi /\ hi <= Len(p)
Slice(p, lo, hi) == SubSeq(p, lo + 1, hi)
\* p[i] of Go: defined when i < len(p), a run-time panic otherwise
IndexOK(p, i) == i < Len(p)
At(p, i) == p[i + 1]

----------------------------------------------------------------------------
(* pkg/ttyhelper and pkg/envhelper *)

\* ttyhelper.ParseDims: columns and rows, two 4-byte big-endian integers
BE32(b) == ((b[1] * 256 + b[2]) * 256 + b[3]) * 256 + b[4]
ParseDimsOK(b) == Len(b) >= 8
ParseDims(b) == <<BE32(SubSeq(b, 1, 4)), BE32(SubSeq(b, 5, 8))>>

\* ttyhelper.SetWinsize: the terminal bridge takes the geometry (w, h)
SetWinsize(ps, fd, w, h) == [ps EXCEPT ![fd].size = <<w, h>>]

\* envhelper.Environment.ApplyDefaults: keys the map lacks get their default
EnvDefaults == [k \in {TERM} |-> dumb]
ApplyDefaults(env) ==
    [k \in DOMAIN env \cup DOMAIN EnvDefaults |->
        IF k \in DOMAIN env THEN env[k] ELSE EnvDefaults[k]]

\* envhelper.Environment.List: one "key=value" entry per key
List(env) == {k \o EqSign \o env[k] : k \in DOMAIN env}

----------------------------------------------------------------------------
(* Text helpers of the standard library *)

IsSpace(c) == c \in {" ", "\n", "\t", "\r"}

RECURSIVE TrimLeft(_)
TrimLeft(s) == IF s # <<>> /\ IsSpace(Head(s)) THEN TrimLeft(Tail(s)) ELSE s

RECURSIVE TrimRight(_)
TrimRight(s) ==
    IF s # <<>> /\ IsSpace(s[Len(s)]) THEN TrimRight(SubSeq(s, 1, Len(s) - 1)) ELSE s

\* strings.TrimSpace(string(buf))
TrimSpace(s) == TrimRight(TrimLeft(s))

RECURSIVE Join(_)
Join(s) == IF s = <<>> THEN "" ELSE Head(s) \o Join(Tail(s))

\* strings.Replace(s, old, new, -1) on chunks of one character
RECURSIVE Replace(_, _, _)
Replace(s, old, new) ==
    IF s = <<>> THEN <<>>
    ELSE (IF Head(s) = old THEN new ELSE <<Head(s)>>) \o Replace(Tail(s), old, new)

----------------------------------------------------------------------------
(* The requests a peer may send on a session channel *)

U32(n) == <<0, 0, n \div 256, n % 256>>

\* "pty-req": string term, uint32 columns, rows, pixel width, pixel height
PtyPayload(term, w, h) ==
    <<0, 0, 0, Len(term)>> \o term \o U32(w) \o U32(h) \o U32(0) \o U32(0)

\* "window-change": uint32 columns, rows, pixel width, pixel height (the
\* payloads drawn all carry the four integers)
DimsPayload(w, h) == U32(w) \o U32(h) \o U32(0) \o U32(0)

\* "env": string name, string value
EnvPayload(k, v) == <<0, 0, 0, Len(k)>> \o k \o <<0, 0, 0, Len(v)>> \o v

LongKey == Fill(75, 250)
LongTerm == Fill(120, 252)

Geometries == {<<100, 40>>}

PtyPayloads ==
    {PtyPayload(xterm, 80, 24), PtyPayload(LongTerm, 80, 24),
     <<0, 0, 0, 5, 120>>, <<0, 0, 0, 2>> \o vt \o <<0, 0, 0>>, <<0, 0, 0>>}

EnvPayloads ==
    {EnvPayload(KeyA, Val1), EnvPayload(KeyA, Val2),
     EnvPayload(LongKey, Val1), <<0, 0, 0, 5, 65>>, <<0, 0, 0>>}

Payloads(type) ==
    CASE type = "shell" -> {<<>>, <<0>>}
      [] type = "exec" -> {<<>>, <<108, 115>>}
      [] type = "pty-req" -> PtyPayloads
      [] type = "window-change" -> {DimsPayload(g[1], g[2]) : g \in Geometries}
      [] type = "env" -> EnvPayloads
      [] OTHER -> {<<>>}

RequestTypes == {"shell", "exec", "pty-req", "window-change", "env", "subsystem"}

Requests ==
    UNION {[Type : {t}, Payload : Payloads(t), WantReply : BOOLEAN] : t \in RequestTypes}

\* what "docker ps ... --quiet --no-trunc" can answer: an error, or its output
QueryOutcomes ==
    {[err |-> TRUE, buf |-> <<>>],
     [err |-> FALSE, buf |-> <<>>],
     [err |-> FALSE, buf |-> <<"\n">>],
     [err |-> FALSE, buf |-> <<"c1", "\n">>]}

NoQuery == [err |-> FALSE, buf |-> <<"-">>]

----------------------------------------------------------------------------
(* Process Launcher: the command a "shell" request builds (lines 160-230) *)

\* c.Config: the registry entry the client points to
Config == heap[client.Config]

\* the payload check left out
ShellPayloadOK_any(req) == TRUE

\* line 155: a shell request is valid when its payload is empty
ShellPayloadOK(req) == Len(req.Payload) = 0

\* the reuse switch ignored: every session that is not local queries
QueriesContainer_always(cfg, srv) == ~cfg.IsLocal

\* lines 163 and 168: the provisioning query runs for non-local sessions
\* unless the server disables reuse
QueriesContainer(cfg, srv) == ~cfg.IsLocal /\ ~srv.NoJoin

\* line 176
ExistingContainer(q) == Join(TrimSpace(q.buf))

\* lines 182-186: attach to an existing container
AttachArgs(cfg, srv, existing) ==
    <<"exec", "-it", existing,
      IF cfg.EntryPoint # "" THEN cfg.EntryPoint ELSE srv.DefaultShell>>

\* the session's run arguments ignored
RunArgs_server(cfg, srv) == srv.DockerRunArgs

\* lines 193-197: the session's run arguments, else the server's
RunArgs(cfg, srv) ==
    IF Len(cfg.DockerRunArgs) > 0 THEN cfg.DockerRunArgs ELSE srv.DockerRunArgs

\* line 198
Labels(cfg) ==
    <<"--label=ssh2docker", "--label=user=" \o cfg.RemoteUser,
      "--label=image=" \o cfg.ImageName>>

\* lines 206-210: Command is a slice, [nil, items]; a nil slice has no items
CommandArgs(cfg, srv) ==
    IF ~cfg.Command.nil THEN cfg.Command.items ELSE <<srv.DefaultShell>>

\* lines 192-210: create a new container
CreateArgs(cfg, srv) ==
    <<"run">> \o RunArgs(cfg, srv) \o Labels(cfg)
    \o (IF cfg.User # "" THEN <<"-u", cfg.User>> ELSE <<>>)
    \o (IF cfg.EntryPoint # "" THEN <<"--entrypoint", cfg.EntryPoint>> ELSE <<>>)
    \o <<cfg.ImageName>> \o CommandArgs(cfg, srv)

\* lines 163-214: exec.Command(...) and cmd.Env; a nil Env makes the child
\* inherit the environment of the server process
Command(cfg, srv, existing) ==
    IF cfg.IsLocal
    THEN [Path |-> "/bin/bash", Args |-> <<>>, Env |-> srv.Environ]
    ELSE IF existing # ""
    THEN [Path |-> "docker", Args |-> AttachArgs(cfg, srv, existing), Env |-> List(cfg.Env)]
    ELSE [Path |-> "docker", Args |-> CreateArgs(cfg, srv), Env |-> List(cfg.Env)]

\* lines 217-222: the banner as written to the channel
BannerText(srv) ==
    Replace(Replace(srv.Banner, "\r", <<>>), "\n", <<"\n", "\r">>) \o <<"\n", "\r">>

\* line 266: the warning line (without its leading warning sign)
ExecWarning ==
    <<"ssh2docker: exec is not yet implemented. https://github.com/moul/ssh2docker/issues/51.", "\n">>

----------------------------------------------------------------------------
(* State after NewClient (lines 52-90) has registered the connection *)

TheClientID == "10.0.0.1:4242"

Servers ==
    [NoJoin : BOOLEAN,
     Banner : {<<"h", "i", "\r", "\n", "!">>},
     DockerRunArgs : {<<"--rm">>},
     DefaultShell : {"/bin/sh"},
     Environ : {{TERM \o EqSign \o dumb}},
     LocalUser : {"root"}]

\* lines 63-71 and 83: the configuration NewClient registers for the user
\* "alpine_test"
DefaultConfig ==
    [ImageName |-> "alpine/test",
     RemoteUser |-> "anonymous",
     Env |-> ApplyDefaults(<<>>),
     Command |-> [nil |-> FALSE, items |-> <<>>],
     DockerRunArgs |-> <<>>,
     User |-> "",
     EntryPoint |-> "",
     IsLocal |-> FALSE]

\* the registered configuration: the default one, the one of a local user
\* (lines 74-76), or one an authorization hook has filled in
ClientConfigSet ==
    {DefaultConfig,
     [DefaultConfig EXCEPT !.IsLocal = TRUE],
     [DefaultConfig EXCEPT !.DockerRunArgs = <<"-v", "/data">>]}

NoCmd == [Path |-> "", Args |-> <<>>, Env |-> {}]

NoRequest == [Type |-> "", Payload |-> <<>>, WantReply |-> FALSE]

NoLast ==
    [n |-> 0, ch |-> 0, req |-> NoRequest, ops |-> <<>>, wrote |-> <<>>,
     pid |-> 0, query |-> NoQuery, cmd |-> NoCmd,
     size |-> <<0, 0>>]

\* a step that handles no request leaves no handler record
NoHandler == last' = [NoLast EXCEPT !.n = last.n]

Init ==
    /\ server \in Servers
    /\ ClientConfigs = [id \in {TheClientID} |-> 1]
    /\ heap \in {<<cfg>> : cfg \in ClientConfigSet}
    /\ client = [Idx |-> 0, ClientID |-> TheClientID, ChannelIdx |-> 0, Config |-> 1,
                 Pty |-> 0, Tty |-> 0, offered |-> 0]
    /\ others = <<>>
    /\ chansLoop = "running"
    /\ chans = <<>>
    /\ ptys = <<>>
    /\ procs = <<>>
    /\ crashed = FALSE
    /\ last = NoLast

----------------------------------------------------------------------------
(* HandleChannels / HandleChannel (lines 106-143) *)

ChannelTypes == {"session", "direct-tcpip"}

\* ptyReq is history: the pty-req in effect on the channel, as the peer
\* declared it (no window-change since); shellFailed is history too: a shell
\* request of the channel failed at the query or at the start; pty is the
\* pair pty.Open returned for the channel (line 130), tty the subordinate side
\* the loop's deferred Close holds (line 148)
NoPtyReq == [set |-> FALSE, term |-> <<>>, w |-> 0, h |-> 0]
NewChan == [loop |-> "none", pty |-> 0, tty |-> 0, closes |-> 0, ptyReq |-> NoPtyReq,
            shellFailed |-> FALSE]
NewPty == [size |-> <<0, 0>>, ttyCloses |-> 0]

\* lines 117-137: reject, or accept and open the pseudo-terminal pair
HandleChannel(type, acceptErr, ptyErr) ==
    /\ ~crashed
    /\ chansLoop = "running"
    /\ client.offered + last.n + Len(others) < MaxInputs
    /\ UNCHANGED <<server, ClientConfigs, heap, others, procs, crashed>>
    /\ NoHandler
    /\ IF type # "session"
       THEN /\ client' = [client EXCEPT !.offered = @ + 1]
            /\ UNCHANGED <<chansLoop, chans, ptys>>
       ELSE IF acceptErr
       THEN /\ client' = [client EXCEPT !.offered = @ + 1]
            /\ chansLoop' = "returned"
            /\ UNCHANGED <<chans, ptys>>
       ELSE IF ptyErr
       THEN /\ client' = [client EXCEPT !.offered = @ + 1, !.ChannelIdx = @ + 1]
            /\ chans' = Append(chans, NewChan)
            /\ UNCHANGED <<chansLoop, ptys>>
       ELSE /\ ptys' = Append(ptys, NewPty)
            /\ client' = [client EXCEPT !.offered = @ + 1, !.ChannelIdx = @ + 1,
                                        !.Tty = Len(ptys) + 1]
            /\ chans' = Append(chans, [NewChan EXCEPT !.pty = Len(ptys) + 1])
            /\ chansLoop' = "assigning"

\* lines 138-142: c.Pty = f, then HandleChannelRequests spawns the goroutine
HandleChannelSpawn ==
    /\ ~crashed
    /\ chansLoop = "assigning"
    /\ client' = [client EXCEPT !.Pty = Len(ptys)]
    /\ chans' = [chans EXCEPT ![Len(chans)].loop = "spawned"]
    /\ chansLoop' = "running"
    /\ UNCHANGED <<server, ClientConfigs, heap, others, ptys, procs, crashed>>
    /\ NoHandler

\* line 148: the goroutine starts; defer evaluates c.Tty now
LoopStart(ch) ==
    /\ ~crashed
    /\ chans[ch].loop = "spawned"
    /\ chans' = [chans EXCEPT ![ch].loop = "running", ![ch].tty = client.Tty]
    /\ UNCHANGED <<server, ClientConfigs, heap, others,
                   client, chansLoop, ptys, procs, crashed>>
    /\ NoHandler

\* lines 148, 150: the request stream ends; the deferred Tty.Close() runs
LoopExit(ch) ==
    /\ ~crashed
    /\ chans[ch].loop = "running"
    /\ chans' = [chans EXCEPT ![ch].loop = "exited"]
    /\ ptys' = [ptys EXCEPT ![chans[ch].tty].ttyCloses = @ + 1]
    /\ UNCHANGED <<server, ClientConfigs, heap, others,
                   client, chansLoop, procs, crashed>>
    /\ NoHandler

----------------------------------------------------------------------------
(* HandleChannelRequests: the request loop of one channel (lines 150-300) *)

\* line 150: the goroutine of channel ch takes the next request
CanHandle(ch) ==
    /\ ~crashed
    /\ chans[ch].loop = "running"
    /\ client.offered + last.n + Len(others) < MaxInputs

\* lines 294-299: the reply, when the request wants one
SendReply(ops, req, ok) ==
    IF req.WantReply
    THEN Append(ops, IF ok THEN "reply_true" ELSE "reply_false")
    ELSE ops

\* last: the request, the calls its handler made in order (ops), the text it wrote
\* to the channel, and for a shell request the query's answer, the command built
\* and, when cmd.Start succeeded, the process and the geometry of its terminal
Launched(ch, req, ops, wrote, pid, query, cmd) ==
    last' = [n |-> last.n + 1, ch |-> ch, req |-> req, ops |-> ops, wrote |-> wrote,
             pid |-> pid, query |-> query, cmd |-> cmd,
             size |-> IF pid # 0 THEN ptys[client.Tty].size ELSE <<0, 0>>]

Handled(ch, req, ops, wrote, pid, query) ==
    Launched(ch, req, ops, wrote, pid, query, NoCmd)

\* an index or slice out of range: the panic is not recovered and ends the program
Panic(ch, req) ==
    /\ crashed' = TRUE
    /\ Handled(ch, req, <<"panic">>, <<>>, 0, NoQuery)

\* c.Config.Env[key] = value
SetEnv(cfg, key, value) ==
    [cfg EXCEPT !.Env = [k \in DOMAIN cfg.Env \cup {key} |->
                            IF k = key THEN value ELSE cfg.Env[k]]]

Tasks == {"copyOut", "copyIn", "wait"}

\* lines 224-232: the process cmd.Start starts, bound to c.Tty
NewProc(ch) ==
    [ch |-> ch, tty |-> client.Tty,
     task |-> [t \in Tasks |-> "running"], once |-> FALSE, closes |-> 0]

\* lines 172-175: the query failed; "continue" skips the reply
OnQueryError(ops, req, ok) == ops

\* "continue" forgotten: the failed start falls through to the reply
OnStartError_reply(ops, req, ok) == SendReply(ops, req, ok)

\* lines 233-236: the start failed; "continue" skips the reply
OnStartError(ops, req, ok) == ops

\* "return" in place of "continue": the failed launch ends the loop
AfterFailure_return(loop) == "exited"

\* lines 174 and 235: "continue" takes the loop to the next request
AfterFailure(loop) == loop

\* lines 172-175 and 233-236: the launch failed
FailedLaunch(ch) ==
    chans' = [chans EXCEPT ![ch].loop = AfterFailure(@), ![ch].shellFailed = TRUE]

\* lines 153-259
Shell(ch, req, q, startErr) ==
    /\ CanHandle(ch)
    /\ req.Type = "shell"
    /\ UNCHANGED <<server, ClientConfigs, heap, others, client, chansLoop, ptys, crashed>>
    /\ IF ~ShellPayloadOK(req)
       THEN /\ Handled(ch, req, SendReply(<<>>, req, FALSE), <<>>, 0, NoQuery)
            /\ UNCHANGED <<procs, chans>>
       ELSE LET queries == QueriesContainer(Config, server)
                query == IF queries THEN q ELSE NoQuery
                opsQ == IF queries THEN <<"ps">> ELSE <<>>
            IN IF queries /\ q.err
               THEN /\ Handled(ch, req, OnQueryError(opsQ, req, TRUE), <<>>, 0, query)
                    /\ FailedLaunch(ch)
                    /\ UNCHANGED procs
               ELSE LET existing == IF queries THEN ExistingContainer(q) ELSE ""
                        cmd == Command(Config, server, existing)
                        banner == IF server.Banner # <<>>
                                  THEN BannerText(server) ELSE <<>>
                        opsB == IF server.Banner # <<>>
                                THEN Append(opsQ, "write") ELSE opsQ
                    IN IF startErr
                       THEN /\ Launched(ch, req,
                                   OnStartError(Append(opsB, "start_failed"), req, TRUE),
                                   banner, 0, query, cmd)
                            /\ FailedLaunch(ch)
                            /\ UNCHANGED procs
                       ELSE /\ procs' = Append(procs, NewProc(ch))
                            /\ UNCHANGED chans
                            /\ Launched(ch, req, SendReply(Append(opsB, "start"), req, TRUE),
                                   banner, Len(procs) + 1, query, cmd)

\* exec accepted
ExecOk_accept == TRUE

\* line 264
ExecOk == FALSE

\* lines 261-267
Exec(ch, req) ==
    /\ CanHandle(ch)
    /\ req.Type = "exec"
    /\ Handled(ch, req, SendReply(<<"write", "sleep">>, req, ExecOk), ExecWarning, 0, NoQuery)
    /\ UNCHANGED <<server, ClientConfigs, heap, others, client,
                   chansLoop, chans, ptys, procs, crashed>>

\* the term name and geometry a pty-req payload declares (RFC 4254, 6.2)
Declared(p) ==
    LET n == At(p, 3)
    IN [set |-> TRUE, term |-> SubSeq(p, 5, 4 + n),
        w |-> BE32(SubSeq(p, 5 + n, 8 + n)), h |-> BE32(SubSeq(p, 9 + n, 12 + n))]

\* lines 269-275
PtyReq(ch, req) ==
    /\ CanHandle(ch)
    /\ req.Type = "pty-req"
    /\ UNCHANGED <<server, ClientConfigs, others, client, chansLoop, procs>>
    /\ LET p == req.Payload
           n == AddU8(At(p, 3), 4)
       IN IF ~IndexOK(p, 3) \/ ~SliceOK(p, 4, n)
          THEN /\ Panic(ch, req)
               /\ UNCHANGED <<heap, ptys, chans>>
          ELSE /\ heap' = [heap EXCEPT ![client.Config] = SetEnv(@, TERM, Slice(p, 4, n))]
               /\ LET rest == Slice(p, n, Len(p))
                  IN IF ~ParseDimsOK(rest)
                     THEN /\ Panic(ch, req)
                          /\ UNCHANGED <<ptys, chans>>
                     ELSE /\ ptys' = SetWinsize(ptys, client.Pty,
                                                ParseDims(rest)[1], ParseDims(rest)[2])
                          /\ chans' = [chans EXCEPT ![ch].ptyReq = Declared(p)]
                          /\ Handled(ch, req, SendReply(<<"setwinsize">>, req, TRUE),
                                     <<>>, 0, NoQuery)
                          /\ UNCHANGED crashed

\* "continue" forgotten: window-change falls through to the reply
OnWindowChange_reply(ops, req, ok) == SendReply(ops, req, ok)

\* line 280: "continue" skips the reply
OnWindowChange(ops, req, ok) == ops

\* lines 277-280
WindowChange(ch, req) ==
    /\ CanHandle(ch)
    /\ req.Type = "window-change"
    /\ UNCHANGED <<server, ClientConfigs, heap, others,
                   client, chansLoop, procs, crashed>>
    /\ ptys' = SetWinsize(ptys, client.Pty,
                          ParseDims(req.Payload)[1], ParseDims(req.Payload)[2])
    /\ chans' = [chans EXCEPT ![ch].ptyReq = NoPtyReq]
    /\ Handled(ch, req, OnWindowChange(<<"setwinsize">>, req, FALSE), <<>>, 0, NoQuery)

\* lines 283-286: the key and the value the handler extracts
EnvKeyHi(p) == AddU8(At(p, 3), 4)
EnvValueLenAt(p) == AddU8(At(p, 3), 7)
EnvValueLo(p) == AddU8(At(p, 3), 8)
EnvValueHi(p) == AddU8(EnvValueLo(p), At(p, EnvValueLenAt(p)))
EnvDecodes(p) ==
    /\ IndexOK(p, 3)
    /\ SliceOK(p, 4, EnvKeyHi(p))
    /\ IndexOK(p, EnvValueLenAt(p))
    /\ SliceOK(p, EnvValueLo(p), EnvValueHi(p))
EnvKey(p) == Slice(p, 4, EnvKeyHi(p))
EnvValue(p) == Slice(p, EnvValueLo(p), EnvValueHi(p))

\* lines 282-288
Env(ch, req) ==
    /\ CanHandle(ch)
    /\ req.Type = "env"
    /\ UNCHANGED <<server, ClientConfigs, others, client, chansLoop, chans, ptys, procs>>
    /\ LET p == req.Payload
       IN IF ~EnvDecodes(p)
          THEN /\ Panic(ch, req)
               /\ UNCHANGED heap
          ELSE /\ heap' =
                      [heap EXCEPT ![client.Config] =
                          SetEnv(@, EnvKey(p), EnvValue(p))]
               /\ Handled(ch, req, SendReply(<<>>, req, FALSE), <<>>, 0, NoQuery)
               /\ UNCHANGED crashed

\* lines 290-291
Unhandled(ch, req) ==
    /\ CanHandle(ch)
    /\ req.Type \notin {"shell", "exec", "pty-req", "window-change", "env"}
    /\ Handled(ch, req, SendReply(<<>>, req, FALSE), <<>>, 0, NoQuery)
    /\ UNCHANGED <<server, ClientConfigs, heap, others, client,
                   chansLoop, chans, ptys, procs, crashed>>

----------------------------------------------------------------------------
(* Stream proxy and teardown (lines 238-259) *)

\* no guard: every caller runs the function
OnceRuns_unguarded(done) == TRUE

\* sync.Once.Do: the function runs unless the Once is done
OnceRuns(done) == ~done

\* lines 244-259: io.Copy or cmd.Wait of task t of process p returns and the
\* goroutine calls once.Do(close): channel.Close() and the disconnect log line
TaskDone(p, t) ==
    /\ ~crashed
    /\ procs[p].task[t] = "running"
    /\ IF OnceRuns(procs[p].once)
       THEN /\ procs' = [procs EXCEPT ![p].task[t] = "done", ![p].once = TRUE,
                                      ![p].closes = @ + 1]
            /\ chans' = [chans EXCEPT ![procs[p].ch].closes = @ + 1]
       ELSE /\ procs' = [procs EXCEPT ![p].task[t] = "done"]
            /\ UNCHANGED chans
    /\ UNCHANGED <<server, ClientConfigs, heap, others, client, chansLoop, ptys, crashed>>
    /\ NoHandler

----------------------------------------------------------------------------

Next ==
    \/ \E type \in ChannelTypes, acceptErr, ptyErr \in BOOLEAN :
           HandleChannel(type, acceptErr, ptyErr)
    \/ HandleChannelSpawn
    \/ \E ch \in DOMAIN chans : LoopStart(ch)
    \/ \E ch \in DOMAIN chans : LoopExit(ch)
    \/ \E ch \in DOMAIN chans, req \in Requests, q \in QueryOutcomes, startErr \in BOOLEAN :
           Shell(ch, req, q, startErr)
    \/ \E ch \in DOMAIN chans, req \in Requests : Exec(ch, req)
    \/ \E ch \in DOMAIN chans, req \in Requests : PtyReq(ch, req)
    \/ \E ch \in DOMAIN chans, req \in Requests : WindowChange(ch, req)
    \/ \E ch \in DOMAIN chans, req \in Requests : Env(ch, req)
    \/ \E ch \in DOMAIN chans, req \in Requests : Unhandled(ch, req)
    \/ \E p \in DOMAIN procs, t \in Tasks : TaskDone(p, t)

Spec == Init /\ [][Next]_vars

----------------------------------------------------------------------------
(* The teardown in the steps the goroutines take: the blocking call of a
   task returns, and the goroutine then calls once.Do (lines 244-259).
   TaskDone above takes both steps at once. *)

\* lines 245, 250, 255: io.Copy or cmd.Wait of task t of process p returns
TaskReturns(p, t) ==
    /\ ~crashed
    /\ p \in DOMAIN procs
    /\ procs[p].task[t] = "running"
    /\ procs' = [procs EXCEPT ![p].task[t] = "returned"]
    /\ UNCHANGED <<server, ClientConfigs, heap, others,
                   client, chansLoop, chans, ptys, crashed>>
    /\ NoHandler

\* lines 246, 251, 258: the goroutine of task t calls once.Do(close)
OnceDo(p, t) ==
    /\ ~crashed
    /\ p \in DOMAIN procs
    /\ procs[p].task[t] = "returned"
    /\ IF OnceRuns(procs[p].once)
       THEN /\ procs' = [procs EXCEPT ![p].task[t] = "done", ![p].once = TRUE,
                                      ![p].closes = @ + 1]
            /\ chans' = [chans EXCEPT ![procs[p].ch].closes = @ + 1]
       ELSE /\ procs' = [procs EXCEPT ![p].task[t] = "done"]
            /\ UNCHANGED chans
    /\ UNCHANGED <<server, ClientConfigs, heap, others, client, chansLoop, ptys, crashed>>
    /\ NoHandler

NextTasks ==
    \/ \E type \in ChannelTypes, acceptErr, ptyErr \in BOOLEAN :
           HandleChannel(type, acceptErr, ptyErr)
    \/ HandleChannelSpawn
    \/ \E ch \in DOMAIN chans : LoopStart(ch)
    \/ \E ch \in DOMAIN chans : LoopExit(ch)
    \/ \E ch \in DOMAIN chans, req \in Requests, q \in QueryOutcomes, startErr \in BOOLEAN :
           Shell(ch, req, q, startErr)
    \/ \E ch \in DOMAIN chans, req \in Requests : Exec(ch, req)
    \/ \E ch \in DOMAIN chans, req \in Requests : PtyReq(ch, req)
    \/ \E ch \in DOMAIN chans, req \in Requests : WindowChange(ch, req)
    \/ \E ch \in DOMAIN chans, req \in Requests : Env(ch, req)
    \/ \E ch \in DOMAIN chans, req \in Requests : Unhandled(ch, req)
    \/ \E p \in DOMAIN procs, t \in Tasks : TaskReturns(p, t)
    \/ \E p \in DOMAIN procs, t \in Tasks : OnceDo(p, t)

\* a goroutine that can go on to its once.Do call does so in the end
FairSpec ==
    /\ Init
    /\ [][NextTasks]_vars
    /\ \A p \in 1..MaxInputs, t \in Tasks : WF_vars(OnceDo(p, t))

----------------------------------------------------------------------------
(* NewClient: further connections and the registry (lines 52-90) *)

\* the connections the server may accept: the remote address and the user name
\* (one character a chunk)
Conns ==
    [RemoteAddr : {TheClientID, "10.0.0.2:5151"},
     User : {<<"a", "_", "b">>, <<"r", "o", "o", "t">>}]

\* lines 63-76: the configuration allocated for the connection
NewConfig(conn, srv) ==
    LET image == Join(Replace(conn.User, "_", <<"/">>))
    IN [DefaultConfig EXCEPT !.ImageName = image,
                             !.Env = <<>>,
                             !.IsLocal = srv.LocalUser # "" /\ image = srv.LocalUser]

\* the entry stored whether or not the identity has one
Registered_always(reg, id, addr) ==
    [k \in DOMAIN reg \cup {id} |-> IF k = id THEN addr ELSE reg[k]]

\* lines 78-80: the entry is stored only when the identity has none
Registered(reg, id, addr) ==
    IF id \in DOMAIN reg
    THEN reg
    ELSE [k \in DOMAIN reg \cup {id} |-> IF k = id THEN addr ELSE reg[k]]

\* lines 52-90; clientCounter is 1 + Len(others)
NewClient(conn) ==
    /\ ~crashed
    /\ client.offered + last.n + Len(others) < MaxInputs
    /\ LET id == conn.RemoteAddr
           addr == Len(heap) + 1
           reg == Registered(ClientConfigs, id, addr)
           allocated == Append(heap, NewConfig(conn, server))
       IN /\ ClientConfigs' = reg
          /\ heap' = [allocated EXCEPT ![reg[id]].Env = ApplyDefaults(@)]
          /\ others' = Append(others, [Idx |-> 1 + Len(others), ClientID |-> id,
                                       Config |-> reg[id]])
    /\ UNCHANGED <<server, client, chansLoop, chans, ptys, procs, crashed>>
    /\ NoHandler

NextRegistry ==
    \/ Next
    \/ \E conn \in Conns : NewClient(conn)

SpecRegistry == Init /\ [][NextRegistry]_vars

----------------------------------------------------------------------------
(* Properties *)

Range(f) == {f[i] : i \in DOMAIN f}

\* the step is the handling of one request
HandlerStep == last'.n = last.n + 1

Replies == {"reply_true", "reply_false"}
RepliesIn(ops) == {i \in DOMAIN ops : ops[i] \in Replies}

DoneTasks(p) == {t \in Tasks : procs[p].task[t] = "done"}
ProcsOf(ch) == {p \in DOMAIN procs : procs[p].ch = ch}

\* C1: for every started backing process, the teardown (channel.Close and the
\* disconnect log) has run exactly once as soon as one of its three tasks has
\* finished, and never a second time, whichever and however many tasks finish.
C1_TeardownOnce ==
    \A p \in DOMAIN procs :
        procs[p].closes = IF DoneTasks(p) # {} THEN 1 ELSE 0

\* C1 witness: all three tasks of a launch have finished and it closed once
C1_Witness ==
    \E p \in DOMAIN procs : DoneTasks(p) = Tasks /\ procs[p].closes = 1

\* C2: a session (channel) starts at most one backing process, so it has at
\* most one task triple and at most one channel.Close call.
C2_AtMostOneProcess ==
    \A ch \in DOMAIN chans :
        Cardinality(ProcsOf(ch)) <= 1 /\ chans[ch].closes <= 1

\* C3: a shell request with a non-empty payload is declined (reply false when
\* a reply is wanted), starts no process, runs no query, writes no banner and
\* leaves the session state as it was.
C3_BadShellDeclined ==
    [][(HandlerStep /\ last'.req.Type = "shell" /\ Len(last'.req.Payload) # 0)
        => /\ procs' = procs
           /\ heap' = heap
           /\ ptys' = ptys
           /\ chans' = chans
           /\ client' = client
           /\ crashed' = crashed
           /\ last'.ops = IF last'.req.WantReply THEN <<"reply_false">> ELSE <<>>
           /\ last'.wrote = <<>>
           /\ last'.pid = 0]_vars

\* C3 witness: such a request, wanting a reply, got the reply false
C3_Witness ==
    /\ last.req.Type = "shell"
    /\ Len(last.req.Payload) # 0
    /\ last.req.WantReply
    /\ last.ops = <<"reply_false">>

\* C4: an exec request never starts a process; its warning is written to the
\* channel before any reply, and the reply, when wanted, is false.
C4_ExecDeclined ==
    [][(HandlerStep /\ last'.req.Type = "exec")
        => /\ procs' = procs
           /\ last'.pid = 0
           /\ last'.wrote = ExecWarning
           /\ last'.ops[1] = "write"
           /\ "reply_true" \notin Range(last'.ops)
           /\ RepliesIn(last'.ops) =
                  IF last'.req.WantReply THEN {Len(last'.ops)} ELSE {}]_vars

\* C4 witness: an exec request wanting a reply, declined while a process runs
C4_Witness ==
    /\ last.req.Type = "exec"
    /\ last.req.WantReply
    /\ procs # <<>>
    /\ last.ops = <<"write", "sleep", "reply_false">>

\* C5: every request that wants a reply, other than window-change, has got
\* exactly one reply when its handler is done (so before the next request).
C5_OneReply ==
    (last.n > 0 /\ ~crashed /\ last.req.Type # "" /\ last.req.Type # "window-change"
        /\ last.req.WantReply)
        => Cardinality(RepliesIn(last.ops)) = 1

\* C6: a shell request is answered true only if its payload is empty and its
\* handler started a backing process before the reply.
C6_ShellTrueOnlyIfStarted ==
    (last.req.Type = "shell" /\ "reply_true" \in Range(last.ops))
        => /\ Len(last.req.Payload) = 0
           /\ last.pid \in DOMAIN procs
           /\ procs[last.pid].ch = last.ch
           /\ \E i, j \in DOMAIN last.ops :
                  i < j /\ last.ops[i] = "start" /\ last.ops[j] = "reply_true"

\* C6 witness: a shell request answered true
C6_Witness ==
    /\ last.req.Type = "shell"
    /\ last.req.WantReply
    /\ "reply_true" \in Range(last.ops)

\* the query's output names a running container
Matches(q) == \E i \in DOMAIN q.buf : ~IsSpace(q.buf[i])

TheLabels ==
    <<"--label=ssh2docker", "--label=user=anonymous", "--label=image=alpine/test">>

\* C7: on a shell request of a non-local session with reuse enabled, a match
\* of the query makes the launch "docker exec" on the matched identifier with
\* no run arguments and no labels; no match makes it "docker run" followed by
\* the session's run arguments when it has some, the server's otherwise, and
\* then the three labels.
C7_JoinDecision ==
    (last.req.Type = "shell" /\ last.cmd # NoCmd /\ ~Config.IsLocal /\ ~server.NoJoin)
        => LET args == last.cmd.Args
               extra == IF Config.DockerRunArgs # <<>>
                        THEN Config.DockerRunArgs ELSE server.DockerRunArgs
           IN IF Matches(last.query)
              THEN /\ last.cmd.Path = "docker"
                   /\ SubSeq(args, 1, 3) = <<"exec", "-it", "c1">>
                   /\ Range(args) \cap (Range(Config.DockerRunArgs)
                          \cup Range(server.DockerRunArgs) \cup Range(TheLabels)) = {}
              ELSE /\ last.cmd.Path = "docker"
                   /\ args[1] = "run"
                   /\ SubSeq(args, 2, 1 + Len(extra)) = extra
                   /\ SubSeq(args, 2 + Len(extra), 4 + Len(extra)) = TheLabels

\* C7 witness: a session with run arguments of its own attached to a container
C7_Witness ==
    /\ last.req.Type = "shell"
    /\ last.pid # 0
    /\ Config.DockerRunArgs # <<>>
    /\ Matches(last.query)
    /\ last.cmd.Args[1] = "exec"

\* C8: when a shell request starts a process on a channel whose pty-req
\* (term T, C columns, R rows) is in effect, the process starts on a terminal
\* sized C x R and with TERM=T in its environment, local session or not.
C8_PtyAppliedAtStart ==
    (last.req.Type = "shell" /\ last.pid # 0 /\ chans[last.ch].ptyReq.set)
        => LET r == chans[last.ch].ptyReq
           IN /\ last.size = <<r.w, r.h>>
              /\ (TERM \o EqSign \o r.term) \in last.cmd.Env

\* the geometry a window-change payload declares (RFC 4254, 6.7)
DeclaredDims(p) == <<BE32(SubSeq(p, 1, 4)), BE32(SubSeq(p, 5, 8))>>

EnvWellFormed(p) ==
    /\ Len(p) >= 8
    /\ Len(p) >= 8 + p[4]
    /\ Len(p) = 8 + p[4] + p[8 + p[4]]
DeclaredKey(p) == SubSeq(p, 5, 4 + p[4])
DeclaredValue(p) == SubSeq(p, 9 + p[4], 8 + p[4] + p[8 + p[4]])

\* C10: after a well-formed env request the environment maps the declared
\* key to the declared value (the last write wins) and every other key is as
\* it was.
C10_EnvLastWriteWins ==
    [][(HandlerStep /\ last'.req.Type = "env" /\ EnvWellFormed(last'.req.Payload))
        => LET p == last'.req.Payload
               old == Config.Env
               new == heap'[client.Config].Env
           IN /\ ~crashed'
              /\ DOMAIN new = DOMAIN old \cup {DeclaredKey(p)}
              /\ new[DeclaredKey(p)] = DeclaredValue(p)
              /\ \A k \in DOMAIN old : k # DeclaredKey(p) => new[k] = old[k]]_vars

\* C11: an env request whose payload parses is accepted: when it wants a
\* reply, the reply is true.
C11_EnvAccepted ==
    (/\ last.req.Type = "env"
     /\ last.req.WantReply
     /\ EnvWellFormed(last.req.Payload)
     /\ ~crashed)
        => last.ops = <<"reply_true">>

\* a payload too short to hold the length prefix of its first field
TooShort(p) == Len(p) < 4

\* C13: a pty-req or env request whose payload is too short is declined and
\* nothing else happens: the server keeps running, the channel's loop goes
\* on, and configuration, terminals, channels and processes are as they were.
C13_ShortPayloadDeclined ==
    [][(/\ HandlerStep
        /\ last'.req.Type \in {"pty-req", "env"}
        /\ TooShort(last'.req.Payload))
        => /\ ~crashed'
           /\ last'.ops = SendReply(<<>>, last'.req, FALSE)
           /\ chans'[last'.ch].loop = "running"
           /\ UNCHANGED <<heap, client, chans, ptys, procs>>]_vars

\* C14: a shell request that fails at the container query or at the start
\* of the process leaves no process and no task behind, closes nothing, and
\* leaves the channel's loop running (so that a later shell request can
\* still start a process: C14_Witness).
C14_FailedShellLeavesNothing ==
    [][(/\ HandlerStep
        /\ last'.req.Type = "shell"
        /\ (last'.query.err \/ "start_failed" \in Range(last'.ops)))
        => /\ last'.pid = 0
           /\ procs' = procs
           /\ ptys' = ptys
           /\ chans'[last'.ch].closes = chans[last'.ch].closes
           /\ chans'[last'.ch].loop = "running"
           /\ ~crashed'
           /\ chansLoop' = chansLoop]_vars

\* C14 witness: a process was started on a channel one of whose earlier shell
\* requests had failed
C14_Witness ==
    /\ last.req.Type = "shell"
    /\ last.pid # 0
    /\ chans[last.ch].shellFailed
    /\ procs[last.pid].ch = last.ch

\* C15: every process is bound to the terminal pair that was opened for its
\* own channel, however many session channels the connection has.
C15_OwnTerminal ==
    \A p \in DOMAIN procs : procs[p].tty = chans[procs[p].ch].pty

\* how often the subordinate side opened for channel ch has been closed
TtyCloses(ch) == ptys[chans[ch].pty].ttyCloses

\* C16: the subordinate side of a channel's terminal pair is closed exactly
\* once, by the exit of the channel's request loop: not while the loop has not
\* exited, and never twice.
C16_TtyClosedOnceAtExit ==
    \A ch \in DOMAIN chans :
        chans[ch].pty # 0 =>
            TtyCloses(ch) = (IF chans[ch].loop = "exited" THEN 1 ELSE 0)

\* the last n elements of s
Suffix(s, n) == SubSeq(s, Len(s) - n + 1, Len(s))

\* C17: the argument list of a create launch ends with the session's explicit
\* command when that is not empty, and with the server's default shell when
\* it is empty.
C17_CreateEndsWithCommand ==
    (/\ last.req.Type = "shell"
     /\ last.cmd.Path = "docker"
     /\ last.cmd.Args[1] = "run")
        => LET args == last.cmd.Args
               command == Config.Command.items
           IN IF command # <<>>
              THEN Len(args) >= Len(command) /\ Suffix(args, Len(command)) = command
              ELSE args[Len(args)] = server.DefaultShell

\* C18: a shell request queries for an existing container exactly when the
\* session is not local and reuse is not disabled; a local session starts the
\* native shell, and with reuse disabled a session that is not local creates.
C18_QueryIffRemoteAndJoin ==
    (last.req.Type = "shell" /\ ShellPayloadOK(last.req))
        => /\ ("ps" \in Range(last.ops)) <=> (~Config.IsLocal /\ ~server.NoJoin)
           /\ (last.cmd # NoCmd /\ Config.IsLocal)
                  => last.cmd.Path = "/bin/bash" /\ last.cmd.Args = <<>>
           /\ (last.cmd # NoCmd /\ ~Config.IsLocal /\ server.NoJoin)
                  => last.cmd.Path = "docker" /\ last.cmd.Args[1] = "run"

\* C18 witness: with reuse disabled, a session that is not local started a
\* create launch without a query
C18_Witness ==
    /\ last.req.Type = "shell"
    /\ server.NoJoin
    /\ ~Config.IsLocal
    /\ last.pid # 0
    /\ last.cmd.Args[1] = "run"
    /\ "ps" \notin Range(last.ops)

\* C20: every accepted session channel has a task that drains its requests:
\* once HandleChannel is through with a channel it accepted, the channel's
\* request loop has been started, whatever the steps after the accept did.
C20_AcceptedChannelHasHandler ==
    \A ch \in DOMAIN chans :
        chans[ch].loop = "none" => (ch = Len(chans) /\ chansLoop = "assigning")

\* once a task of a started process has returned, the channel is in the end
\* closed by that launch's teardown, unless the server has crashed
ReturnLeadsToCloseOrCrash ==
    \A p \in 1..MaxInputs, t \in Tasks :
        (p \in DOMAIN procs /\ procs[p].task[t] = "returned")
            ~> \/ crashed
               \/ /\ p \in DOMAIN procs
                  /\ procs[p].closes = 1
                  /\ chans[procs[p].ch].closes >= 1

\* C19: once a task of a started process has returned (the wait or either
\* copy), the channel is in the end closed by that launch's teardown, whether
\* or not the other two tasks ever finish.
C19_ReturnLeadsToClose ==
    \A p \in 1..MaxInputs, t \in Tasks :
        (p \in DOMAIN procs /\ procs[p].task[t] = "returned")
            ~> (/\ p \in DOMAIN procs
                /\ procs[p].closes = 1
                /\ chans[procs[p].ch].closes >= 1)

\* the identity and the configuration of every Client built so far
Clients ==
    {[ClientID |-> client.ClientID, Config |-> client.Config]}
        \cup {[ClientID |-> others[i].ClientID, Config |-> others[i].Config] :
                 i \in DOMAIN others}

\* C12: the registry is lookup-or-create: an identity's entry, once made, is
\* never removed or replaced by another object, and every connection holds
\* the object registered for its identity, so that connections of one
\* identity share one configuration and see each other's changes to it.
C12_RegistryLookupOrCreate ==
    [][/\ \A id \in DOMAIN ClientConfigs :
              id \in DOMAIN ClientConfigs' /\ ClientConfigs'[id] = ClientConfigs[id]
       /\ \A c \in Clients' : /\ c.ClientID \in DOMAIN ClientConfigs'
                              /\ c.Config = ClientConfigs'[c.ClientID]]_vars

\* C12 witness: a later connection of the first connection's identity holds
\* the very object the first one holds, and reads in it the variable an env
\* request of the first connection's session stored
C12_Witness ==
    \E i \in DOMAIN others :
        /\ others[i].ClientID = client.ClientID
        /\ others[i].Config = client.Config
        /\ Len(heap) > 1
        /\ KeyA \in DOMAIN heap[others[i].Config].Env
        /\ last.req.Type = "env"

====
